---- MODULE Spec2Model ----
(***************************************************************************)
(* Model of the macros test_permutations! / test_permutations_impl! of     *)
(* src/lib.rs.  The macro invocation is rewritten rule by rule, first      *)
(* matching rule first, exactly as macro_rules! does; the expanded item    *)
(* list is kept in textual order.  A second specification runs the         *)
(* generated test functions, statement by statement, interleaved.          *)
(***************************************************************************)
EXTENDS Integers, Sequences, FiniteSets, TLC

\* ---- bounds of the model ------------------------------------------------
MaxVars == 3
MaxVals == 2
MaxTests == 8
MaxRunTests == 4

\* ---- identifiers --------------------------------------------------------
Title == "title"
VarNames == <<"a", "b", "c", "d", "e">>
ValuePool == <<"V1", "V2", "V3", "V4">>
ValueNames == {"V1", "V2"}

SeqUpTo(S, n) == UNION {[1..k -> S] : k \in 0..n}
Range(s) == {s[i] : i \in 1..Len(s)}

\* what the user may write after `let v =`: any list of value names,
\* the empty list and lists with a repeated name included
ValueLists == SeqUpTo(ValueNames, MaxVals)

RECURSIVE Prod(_, _)
\* k[1] * ... * k[n]
Prod(k, n) == IF n = 0 THEN 1 ELSE k[n] * Prod(k, n - 1)

RECURSIVE ScenariosOf(_)
\* the `let` statements of one invocation with n variables, named in order;
\* the invocations whose non-empty value lists multiply to more than
\* MaxTests are left out
ScenariosOf(n) ==
  IF n = 0 THEN {<<>>}
  ELSE {s \in {Append(h, [variable |-> VarNames[n], values |-> l]) :
                 h \in ScenariosOf(n - 1), l \in ValueLists} :
          Prod([i \in 1..n |-> IF s[i].values = <<>> THEN 1
                               ELSE Len(s[i].values)], n) <= MaxTests}

Scenarios == UNION {ScenariosOf(n) : n \in 0..MaxVars}

VARIABLES
  scenario,   \* the let statements given to test_permutations!
  phase,      \* "start", "expanding", "done", "rejected"
  items,      \* expansion so far, in textual order: macro calls and fns
  pc,         \* per generated test: index of the next statement of fn test
  env,        \* per generated test: its local let bindings
  result,     \* per generated test: its local $result
  outcome,    \* per generated test: "none", "passed", "errored", "failed"
  trace,      \* per generated test: statements executed so far
  verdict     \* behaviour of the user's when/then blocks per binding set

vars == <<scenario, phase, items, pc, env, result, outcome, trace, verdict>>
runVars == <<pc, env, result, outcome, trace, verdict>>

\* ---- items ----------------------------------------------------------------
Let(var, val) == [variable |-> var, value |-> val]

\* a pending test_permutations_impl! invocation inside module `path`
Macro(path, single, multi) ==
  [kind |-> "macro", path |-> path, single_lets |-> single,
   multi_lets |-> multi, lets |-> <<>>]

\* an emitted `#[test] fn test()` inside module `path`
Fn(path, lets) ==
  [kind |-> "fn", path |-> path, single_lets |-> <<>>,
   multi_lets |-> <<>>, lets |-> lets]

\* ---- matchers -------------------------------------------------------------
\* `$($value:ident)or+` : one or more value names
OrStar(values) == TRUE
OrPlus(values) == Len(values) >= 1

AllOrPlus(group) == \A i \in 1..Len(group) : OrPlus(group[i].values)

\* the only rule of test_permutations!
MatchesEntry(s) == Len(s) >= 1 /\ AllOrPlus(s)

Matches1(inv) ==
  /\ Len(inv.single_lets) = 1
  /\ Len(inv.multi_lets) = 1
  /\ inv.multi_lets[1] = <<>>

Matches2NoTail(inv) ==
  /\ Len(inv.single_lets) = 2
  /\ Len(inv.single_lets[2]) = 1
  /\ Len(inv.multi_lets) = 1
  /\ inv.multi_lets[1] = <<>>
Matches2(inv) ==
  /\ Len(inv.single_lets) = 2
  /\ Len(inv.single_lets[2]) = 1
  /\ Len(inv.multi_lets) = 1
  /\ AllOrPlus(inv.multi_lets[1])

Matches3(inv) ==
  /\ Len(inv.single_lets) = 1
  /\ Len(inv.multi_lets) = 1
  /\ Len(inv.multi_lets[1]) = 1
  /\ AllOrPlus(inv.multi_lets[1])

Matches4(inv) ==
  /\ Len(inv.single_lets) = 1
  /\ Len(inv.multi_lets) = 1
  /\ Len(inv.multi_lets[1]) >= 2
  /\ AllOrPlus(inv.multi_lets[1])

Matches5(inv) ==
  /\ inv.single_lets = << <<>> >>
  /\ Len(inv.multi_lets) = 2
  /\ Len(inv.multi_lets[1]) = 1
  /\ AllOrPlus(inv.multi_lets[1])

Matches6(inv) ==
  /\ Len(inv.single_lets) = 1
  /\ Len(inv.multi_lets) = 2
  /\ Len(inv.multi_lets[1]) = 1
  /\ AllOrPlus(inv.multi_lets[1])

\* macro_rules! takes the first rule that matches; 0: no rule matches
RuleOf(inv) ==
  IF Matches1(inv) THEN 1
  ELSE IF Matches2(inv) THEN 2
  ELSE IF Matches3(inv) THEN 3
  ELSE IF Matches4(inv) THEN 4
  ELSE IF Matches5(inv) THEN 5
  ELSE IF Matches6(inv) THEN 6
  ELSE 0

\* ---- transcribers ---------------------------------------------------------
\* `mod $multi_var { mod $multi_val { ... } }`
ModPathNoValue(path, var, values, val) == path \o <<var, var>>
ModPathCollapsed(path, var, values, val) ==
  IF Len(values) = 1 THEN path ELSE path \o <<var, val>>
ModPath(path, var, values, val) == path \o <<var, val>>

\* `$( mod $multi_val { ... } )*` : the values the repetition runs over
EachValueDedup(values) ==
  LET keep == {i \in 1..Len(values) : \A j \in 1..(i-1) : values[j] # values[i]}
      F[i \in 0..Len(values)] ==
        IF i = 0 THEN <<>>
        ELSE IF i \in keep THEN Append(F[i-1], values[i]) ELSE F[i-1]
  IN F[Len(values)]
EachValueReversed(values) ==
  [i \in 1..Len(values) |-> values[Len(values) + 1 - i]]
EachValueButLast(values) ==
  IF Len(values) >= 2 THEN SubSeq(values, 1, Len(values) - 1) ELSE values
EachValue(values) == values

\* `single_lets { $(...)* let $single_var_extra = $single_val_extra; }`
MergedSwapped(group, extra) == extra \o group
Merged(group, extra) == group \o extra

Rule1(inv) == << Fn(inv.path, inv.single_lets[1]) >>

Rule2(inv) ==
  << Macro(inv.path,
           << Merged(inv.single_lets[1], inv.single_lets[2]) >>,
           inv.multi_lets) >>

Rule3(inv) ==
  LET v == inv.multi_lets[1][1]
      vals == EachValue(v.values)
  IN [i \in 1..Len(vals) |->
        Macro(ModPath(inv.path, v.variable, v.values, vals[i]),
              inv.single_lets \o << <<Let(v.variable, vals[i])>> >>,
              << <<>> >>)]

Rule4(inv) ==
  << Macro(inv.path, inv.single_lets,
           << <<Head(inv.multi_lets[1])>>, Tail(inv.multi_lets[1]) >>) >>

Rule5(inv) ==
  LET v == inv.multi_lets[1][1]
      vals == EachValue(v.values)
  IN [i \in 1..Len(vals) |->
        Macro(ModPath(inv.path, v.variable, v.values, vals[i]),
              << <<Let(v.variable, vals[i])>> >>,
              << inv.multi_lets[2] >>)]

Rule6(inv) ==
  LET v == inv.multi_lets[1][1]
      vals == EachValue(v.values)
  IN [i \in 1..Len(vals) |->
        Macro(ModPath(inv.path, v.variable, v.values, vals[i]),
              inv.single_lets \o << <<Let(v.variable, vals[i])>> >>,
              << inv.multi_lets[2] >>)]

Transcribe(inv) ==
  CASE RuleOf(inv) = 1 -> Rule1(inv)
    [] RuleOf(inv) = 2 -> Rule2(inv)
    [] RuleOf(inv) = 3 -> Rule3(inv)
    [] RuleOf(inv) = 4 -> Rule4(inv)
    [] RuleOf(inv) = 5 -> Rule5(inv)
    [] RuleOf(inv) = 6 -> Rule6(inv)

\* the expansion of test_permutations!: `mod $title { test_permutations_impl! ... }`
Entry(s) == << Macro(<<Title>>, << <<>> >>, << s >>) >>

\* ---- the expander ---------------------------------------------------------
Pending(its) == {i \in 1..Len(its) : its[i].kind = "macro"}

\* the first pending invocation in textual order, 0 when none is left
Leftmost(its) ==
  IF Pending(its) = {} THEN 0
  ELSE CHOOSE i \in Pending(its) : \A j \in Pending(its) : i <= j

Replace(its, i, new) ==
  SubSeq(its, 1, i - 1) \o new \o SubSeq(its, i + 1, Len(its))

PhaseOf(its) == IF Pending(its) = {} THEN "done" ELSE "expanding"

NoTests == <<>>

Init ==
  /\ scenario \in Scenarios
  /\ phase = "start"
  /\ items = <<>>
  /\ pc = NoTests /\ env = NoTests /\ result = NoTests
  /\ outcome = NoTests /\ trace = NoTests /\ verdict = NoTests

TestPermutations ==
  /\ phase = "start"
  /\ IF MatchesEntry(scenario)
       THEN /\ items' = Entry(scenario)
            /\ phase' = "expanding"
       ELSE /\ items' = <<>>
            /\ phase' = "rejected"
  /\ UNCHANGED <<scenario, runVars>>

\* the rule macro_rules! picks for the first pending invocation
RuleAt(its) == IF Leftmost(its) = 0 THEN 0 ELSE RuleOf(its[Leftmost(its)])

\* rule 1: no variable is left, emit the test function
EmitTest ==
  /\ phase = "expanding"
  /\ RuleAt(items) = 1
  /\ items' = Replace(items, Leftmost(items), Rule1(items[Leftmost(items)]))
  /\ phase' = PhaseOf(items')
  /\ UNCHANGED <<scenario, runVars>>

\* rule 2: merge the extra single_lets group into the first one
MergeSingleLets ==
  /\ phase = "expanding"
  /\ RuleAt(items) = 2
  /\ items' = Replace(items, Leftmost(items), Rule2(items[Leftmost(items)]))
  /\ phase' = PhaseOf(items')
  /\ UNCHANGED <<scenario, runVars>>

\* rule 3: one variable is left, one module per value
ExpandLastVariable ==
  /\ phase = "expanding"
  /\ RuleAt(items) = 3
  /\ items' = Replace(items, Leftmost(items), Rule3(items[Leftmost(items)]))
  /\ phase' = PhaseOf(items')
  /\ UNCHANGED <<scenario, runVars>>

\* rule 4: split multi_lets into its head and its tail
SplitHead ==
  /\ phase = "expanding"
  /\ RuleAt(items) = 4
  /\ items' = Replace(items, Leftmost(items), Rule4(items[Leftmost(items)]))
  /\ phase' = PhaseOf(items')
  /\ UNCHANGED <<scenario, runVars>>

\* rule 5: the first variable, single_lets still empty
ExpandFirstVariable ==
  /\ phase = "expanding"
  /\ RuleAt(items) = 5
  /\ items' = Replace(items, Leftmost(items), Rule5(items[Leftmost(items)]))
  /\ phase' = PhaseOf(items')
  /\ UNCHANGED <<scenario, runVars>>

\* rule 6: a variable in the middle
ExpandNextVariable ==
  /\ phase = "expanding"
  /\ RuleAt(items) = 6
  /\ items' = Replace(items, Leftmost(items), Rule6(items[Leftmost(items)]))
  /\ phase' = PhaseOf(items')
  /\ UNCHANGED <<scenario, runVars>>

Next ==
  \/ TestPermutations
  \/ EmitTest
  \/ MergeSingleLets
  \/ ExpandLastVariable
  \/ SplitHead
  \/ ExpandFirstVariable
  \/ ExpandNextVariable

Spec == Init /\ [][Next]_vars

\* the compiler keeps expanding while an invocation is pending
FairSpec == Spec /\ WF_vars(Next)


\* ---- running the generated tests ----------------------------------------
\* the statements of the generated `fn test()`, in textual order
BodyThenFirst == <<"lets", "then", "when">>
Body == <<"lets", "when", "then">>

Returned == Len(Body) + 1

\* `$(let $single_var = $single_val;)*` of test t: locals of that fn
BindingsShared(t) == items[1].lets
Bindings(t) == items[t].lets

\* the value the when block computes from the bindings in scope
WhenValue(e) == [i \in 1..Len(e) |-> e[i].value]

RECURSIVE ExpandAll(_)
\* the complete expansion: rewrite while a rule matches a pending invocation
ExpandAll(its) ==
  IF RuleAt(its) = 0 THEN its
  ELSE CHOOSE r \in {ExpandAll(x) :
                       x \in {Replace(its, Leftmost(its),
                                      Transcribe(its[Leftmost(its)]))}} : TRUE

\* scenarios that compile: distinct value names, at most MaxRunTests tests
RunScenarios ==
  UNION {{[i \in 1..n |-> [variable |-> VarNames[i],
                           values |-> SubSeq(ValuePool, 1, k[i])]] :
            k \in {f \in [1..n -> 1..MaxVals] : Prod(f, n) <= MaxRunTests}} :
         n \in 1..MaxVars}

Verdicts == {"ok", "panic", "fail"}

InitRun ==
  /\ scenario \in RunScenarios
  /\ phase = "done"
  /\ items = ExpandAll(Entry(scenario))
  /\ pc = [t \in 1..Len(items) |-> 1]
  /\ env = [t \in 1..Len(items) |-> <<>>]
  /\ result = [t \in 1..Len(items) |-> <<>>]
  /\ outcome = [t \in 1..Len(items) |-> "none"]
  /\ trace = [t \in 1..Len(items) |-> <<>>]
  /\ verdict \in [{items[t].lets : t \in 1..Len(items)} -> Verdicts]

\* statement `stmt` of test t is next
At(t, stmt) == pc[t] <= Len(Body) /\ Body[pc[t]] = stmt

\* a statement completed: fall through to the next one, or return
Completed(t, ev) ==
  /\ pc' = [pc EXCEPT ![t] = pc[t] + 1]
  /\ trace' = [trace EXCEPT ![t] = Append(trace[t], ev)]
  /\ outcome' = [outcome EXCEPT ![t] =
                   IF pc[t] + 1 = Returned THEN "passed" ELSE outcome[t]]

\* a statement panicked: the fn unwinds, nothing after it runs
Panicked(t, ev, out) ==
  /\ pc' = [pc EXCEPT ![t] = Returned]
  /\ trace' = [trace EXCEPT ![t] = Append(trace[t], ev)]
  /\ outcome' = [outcome EXCEPT ![t] = out]

RunLets(t) ==
  /\ At(t, "lets")
  /\ env' = [env EXCEPT ![t] = Bindings(t)]
  /\ Completed(t, "lets")
  /\ UNCHANGED <<scenario, phase, items, result, verdict>>

RunWhen(t) ==
  /\ At(t, "when")
  /\ IF verdict[env[t]] = "panic"
       THEN /\ Panicked(t, "when_panic", "errored")
            /\ UNCHANGED result
       ELSE /\ result' = [result EXCEPT ![t] = WhenValue(env[t])]
            /\ Completed(t, "when")
  /\ UNCHANGED <<scenario, phase, items, env, verdict>>

RunThen(t) ==
  /\ At(t, "then")
  /\ IF verdict[env[t]] = "fail"
       THEN Panicked(t, "then_fail", "failed")
       ELSE Completed(t, "then")
  /\ UNCHANGED <<scenario, phase, items, env, result, verdict>>

RunTest(t) == RunLets(t) \/ RunWhen(t) \/ RunThen(t)

NextRun ==
  \/ \E t \in 1..Len(items) : RunLets(t)
  \/ \E t \in 1..Len(items) : RunWhen(t)
  \/ \E t \in 1..Len(items) : RunThen(t)

SpecRun == InitRun /\ [][NextRun]_vars


\* ---- what the scenario says, computed without the expander ---------------
NVars == Len(scenario)
NVals(i) == Len(scenario[i].values)

WellFormed == NVars >= 1 /\ \A i \in 1..NVars : NVals(i) >= 1
HasEmptyList == \E i \in 1..NVars : NVals(i) = 0
HasDuplicate ==
  \E i \in 1..NVars : \E j, k \in 1..NVals(i) :
     j < k /\ scenario[i].values[j] = scenario[i].values[k]

RECURSIVE ProductFrom(_)
\* number of values of variables i..NVars multiplied together
ProductFrom(i) == IF i > NVars THEN 1 ELSE NVals(i) * ProductFrom(i + 1)
Product == ProductFrom(1)

\* the lets of the k-th pass (k from 1) of the nested loops, the first
\* variable outermost
LoopLets(k) ==
  [i \in 1..NVars |->
     Let(scenario[i].variable,
         scenario[i].values[(((k - 1) \div ProductFrom(i + 1)) % NVals(i)) + 1])]

Fns == {k \in 1..Len(items) : items[k].kind = "fn"}

\* one value name per variable
Combinations ==
  {c \in [1..NVars -> ValueNames] :
     \A i \in 1..NVars : c[i] \in Range(scenario[i].values)}
ComboLets(c) == [i \in 1..NVars |-> Let(scenario[i].variable, c[i])]
\* in how many ways the value lists yield combination c
RECURSIVE Ways(_, _)
Ways(c, i) ==
  IF i = 0 THEN 1
  ELSE Cardinality({j \in 1..NVals(i) : scenario[i].values[j] = c[i]})
         * Ways(c, i - 1)

\* C1: the complete expansion of a scenario with k1..kN >= 1 values holds
\* exactly k1*...*kN test functions and nothing else, and every combination
\* of values appears exactly as often as the value lists yield it (once,
\* when the names of each list are distinct).
OneTestPerCombination ==
  (WellFormed /\ phase = "done") =>
     /\ Len(items) = Product
     /\ Fns = 1..Len(items)
     /\ \A c \in Combinations :
          Cardinality({k \in Fns : items[k].lets = ComboLets(c)}) = Ways(c, NVars)

OneTestPerCombinationWitness ==
  /\ phase = "done" /\ NVars = 3 /\ Len(items) = 8
  /\ ~HasDuplicate

\* C2: the test functions appear in nested-loop order: the k-th function
\* binds the values of the k-th pass of the loops with the first declared
\* variable outermost and the last innermost, values in declaration order.
NestedLoopOrder ==
  (WellFormed /\ phase = "done") =>
     /\ Len(items) = Product
     /\ \A k \in 1..Len(items) : items[k].lets = LoopLets(k)

NestedLoopOrderWitness ==
  /\ phase = "done" /\ NVars = 2
  /\ scenario[1].values = <<"V2", "V1">>
  /\ scenario[2].values = <<"V1", "V2">>
  /\ [k \in 1..Len(items) |-> WhenValue(items[k].lets)]
       = << <<"V2", "V1">>, <<"V2", "V2">>, <<"V1", "V1">>, <<"V1", "V2">> >>

\* C3: every emitted test function sits at module path
\* [title, var1, val1, ..., varN, valN], of 1 + 2*N segments, a variable
\* with a single value included.
PathShape ==
  \A k \in Fns :
     /\ Len(items[k].path) = 1 + 2 * NVars
     /\ items[k].path[1] = Title
     /\ \A i \in 1..NVars :
          /\ items[k].path[2 * i] = scenario[i].variable
          /\ items[k].path[2 * i + 1] \in Range(scenario[i].values)

PathShapeWitness ==
  /\ phase = "done" /\ NVars = 3
  /\ NVals(1) = 2 /\ NVals(2) = 1 /\ NVals(3) = 2
  /\ \E k \in Fns : Len(items[k].path) = 7

\* C4: the body of every emitted test function has exactly one let per
\* declared variable, in declaration order, binding a value of that
\* variable's list, the one that follows the variable in the module path.
BindingsFollowPath ==
  \A k \in Fns :
     /\ Len(items[k].lets) = NVars
     /\ \A i \in 1..NVars :
          /\ items[k].lets[i].variable = scenario[i].variable
          /\ items[k].lets[i].value \in Range(scenario[i].values)
          /\ 2 * i + 1 <= Len(items[k].path)
          /\ items[k].lets[i].value = items[k].path[2 * i + 1]

BindingsFollowPathWitness ==
  /\ phase = "done" /\ NVars = 3
  /\ \E k \in Fns :
       WhenValue(items[k].lets) = <<"V2", "V1", "V2">>

\* C5: when the value names of each list are pairwise distinct, two
\* different test functions never have the same module path.
PathsUnique ==
  ~HasDuplicate =>
     \A j, k \in Fns : j # k => items[j].path # items[k].path

PathsUniqueWitness ==
  /\ phase = "done" /\ ~HasDuplicate /\ NVars >= 2
  /\ Cardinality(Fns) >= 4

\* C6 as claimed: a value list with a repeated name makes the scenario be
\* rejected before anything is expanded, and no test function is emitted.
DuplicateRejected ==
  (HasDuplicate /\ phase # "start") => (phase = "rejected" /\ Fns = {})

\* C6 amended: a repeated value name is not detected by the macros: the
\* scenario (every list non-empty) is expanded like any other, to one test
\* function per combination, and two of them share one module path.
DuplicateExpanded ==
  (HasDuplicate /\ WellFormed) =>
     /\ phase # "rejected"
     /\ phase = "done" =>
          /\ Cardinality(Fns) = Product
          /\ \E j, k \in Fns : j < k /\ items[j].path = items[k].path

DuplicateExpandedWitness ==
  /\ HasDuplicate /\ WellFormed /\ phase = "done"
  /\ \E j, k \in Fns : j < k /\ items[j].path = items[k].path

\* C7: a scenario with an empty value list is rejected by the match of
\* test_permutations! itself: nothing is expanded, no test function and no
\* empty set of tests comes out of it.
EmptyListRejected ==
  (HasEmptyList /\ phase # "start") => (phase = "rejected" /\ items = <<>>)

EmptyListRejectedWitness ==
  /\ HasEmptyList /\ phase = "rejected" /\ NVars >= 2
  /\ \E i \in 1..NVars : NVals(i) >= 1

\* C8: in one test the lets run first, then the when block, then the then
\* block, which sees the bindings and the result; the then block runs only
\* after the when block has returned and never after it has panicked.
StepsInOrder ==
  \A t \in 1..Len(trace) :
     /\ \A i \in 1..Len(trace[t]) :
          /\ trace[t][i] = "lets" => i = 1
          /\ trace[t][i] \in {"when", "when_panic"} =>
               i = 2 /\ env[t] = items[t].lets
          /\ trace[t][i] \in {"then", "then_fail"} =>
               /\ i = 3
               /\ trace[t][2] = "when"
               /\ env[t] = items[t].lets
               /\ result[t] = WhenValue(items[t].lets)
     /\ outcome[t] = "errored" =>
          /\ trace[t] = <<"lets", "when_panic">>
          /\ pc[t] = Returned

StepsInOrderWitness ==
  \E t, u \in 1..Len(trace) :
     /\ trace[t] = <<"lets", "when", "then">> /\ outcome[t] = "passed"
     /\ trace[u] = <<"lets", "when_panic">> /\ outcome[u] = "errored"

\* C9: whatever the interleaving, a test's outcome is the one its own
\* combination of values gives, whether or not sibling tests panic, it
\* only ever holds its own bindings, and while it has not finished it can
\* always take its next step.
ExpectedOutcome(e) ==
  CASE verdict[e] = "panic" -> "errored"
    [] verdict[e] = "fail" -> "failed"
    [] OTHER -> "passed"

Independent ==
  \A t \in 1..Len(outcome) :
     /\ env[t] \in {<<>>, LoopLets(t)}
     /\ outcome[t] # "none" => outcome[t] = ExpectedOutcome(LoopLets(t))
     /\ outcome[t] = "none" <=> pc[t] # Returned
     /\ pc[t] # Returned => ENABLED RunTest(t)

IndependentWitness ==
  \E t, u, w \in 1..Len(outcome) :
     /\ outcome[t] = "failed" /\ outcome[u] = "errored"
     /\ outcome[w] = "passed" /\ t < w /\ w < u

\* C10: every pending invocation is matched by a rule and the rewriting
\* ends: an expansion that has started reaches the state where only test
\* functions are left.
ExpansionCompletes == (phase = "expanding") ~> (phase = "done")

ExpansionCompletesWitness ==
  /\ phase = "done" /\ NVars = 3 /\ Cardinality(Fns) = 8
  /\ Len(items) = 8

====
